---- MODULE Spec2Model ----
(***************************************************************************)
(* Stay & Sip Finger Lakes (src/app.py): the dataset loader with its       *)
(* st.cache_data cache, the sidebar criteria, and the view blocks that     *)
(* filter, join and aggregate the loaded tables.                           *)
(*                                                                         *)
(* A DataFrame is [cols, rows]: cols the column labels, rows a sequence of *)
(* functions from cols to cells.  A cell is <<v>> for a value v and <<>>   *)
(* for NaN (the filler pandas uses for a key a record lacks).              *)
(***************************************************************************)
EXTENDS Integers, Sequences, FiniteSets, TLC

VARIABLES
    files,      \* path -> contents of the JSON file on disk
    mtime,      \* path -> os.path.getmtime(path)
    now,        \* the clock that stamps file modifications
    cache,      \* st.cache_data's store for _load_json_df
    tables,     \* path -> the module-level *_df name bound by the current pass
    seen,       \* path -> the mtime load_json_df observed on its last call
    errors,     \* paths for which safe_load called st.error in this pass
    lake,       \* sidebar selectbox "Lake"
    budget,     \* sidebar slider "Max price per night (stays)"
    pc,         \* position of the current pass
    out,        \* what the view of the current pass handed to the display
    script      \* statement-by-statement execution of the file as written

vars == <<files, mtime, now, cache, tables, seen, errors, lake, budget, pc, out, script>>

-----------------------------------------------------------------------------
(* Bounds of the model *)

MaxClock == 2
MaxStayRows == 3
MaxWineryRows == 2
MaxMapRows == 2
MaxItinRows == 2

(* Program constants *)

DefaultBudget == 300
BudgetMin == 100
BudgetMax == 400
BudgetStep == 10

lake_opts == <<"All", "Keuka", "Seneca", "Cayuga">>

STAYS == "data/stays.json"
WINERIES == "data/wineries.json"
ATTRACTIONS == "data/attractions.json"
VENUES == "data/wedding_venues.json"
ITINERARIES == "data/itineraries.json"

Paths == {STAYS, WINERIES, ATTRACTIONS, VENUES, ITINERARIES}

-----------------------------------------------------------------------------
(* pandas *)

NaN == <<>>

EmptyDF == [cols |-> {}, rows |-> <<>>]

\* pd.DataFrame(data) for a list of records: the columns are the union of
\* the keys, a key a record lacks is filled with NaN.
DataFrame(data) ==
    LET cols == UNION {DOMAIN data[i] : i \in 1..Len(data)}
    IN  [cols |-> cols,
         rows |-> [i \in 1..Len(data) |->
                     [c \in cols |-> IF c \in DOMAIN data[i]
                                     THEN <<data[i][c]>> ELSE NaN]]]

\* DataFrame.empty: any axis of length 0.
empty(df) == Len(df.rows) = 0 \/ df.cols = {}

\* df[mask] for a boolean Series mask: the rows whose mask entry is True,
\* in order, columns kept.
BoolIndex(df, mask) ==
    LET idx == SelectSeq([i \in 1..Len(df.rows) |-> i], LAMBDA i : mask[i])
    IN  [cols |-> df.cols, rows |-> [k \in 1..Len(idx) |-> df.rows[idx[k]]]]

\* df[c] == v, elementwise: NaN equals nothing.
ColEq(df, c, v) == [i \in 1..Len(df.rows) |-> df.rows[i][c] = <<v>>]

\* df[c] <= v, elementwise: a comparison with NaN is False.
ColLe(df, c, v) ==
    [i \in 1..Len(df.rows) |-> df.rows[i][c] # NaN /\ df.rows[i][c][1] <= v]

\* df[c] < v, elementwise.
ColLt(df, c, v) ==
    [i \in 1..Len(df.rows) |-> df.rows[i][c] # NaN /\ df.rows[i][c][1] < v]

-----------------------------------------------------------------------------
(* File contents *)

Malformed == [ok |-> FALSE, data |-> <<>>]
Valid(data) == [ok |-> TRUE, data |-> data]

Unbound == [unbound |-> TRUE]
NoEntry == [miss |-> TRUE]
NoOutput == [view |-> "none"]

-----------------------------------------------------------------------------
(* Data loading, lines 16-35 and 258-263 *)

\* _load_json_df under @st.cache_data.  Streamlit leaves a parameter whose
\* name starts with an underscore out of the cache key, so the entry for a
\* call _load_json_df(path, _mtime) is keyed by path alone.
CacheKey(path, m) == path

CacheHit(path, m) == cache[CacheKey(path, m)] # NoEntry

\* The body of _load_json_df: json.load raises JSONDecodeError on a
\* malformed file, otherwise the parsed list becomes a DataFrame.
ReadFile(path) ==
    IF files[path].ok
    THEN [raised |-> FALSE, df |-> DataFrame(files[path].data)]
    ELSE [raised |-> TRUE, df |-> EmptyDF]

\* load_json_df(path): the file's mtime is read and passed to the cached
\* function; a hit returns the stored table, a miss runs the body.
load_json_df(path) ==
    LET m == mtime[path]
    IN  IF CacheHit(path, m)
        THEN [raised |-> FALSE, df |-> cache[CacheKey(path, m)], reread |-> FALSE]
        ELSE [raised |-> ReadFile(path).raised, df |-> ReadFile(path).df, reread |-> TRUE]

\* safe_load(path): JSONDecodeError becomes st.error and an empty DataFrame.
safe_load(path) ==
    LET r == load_json_df(path)
    IN  IF r.raised THEN EmptyDF ELSE r.df

\* The cache after the call: a value returned on a miss is stored, an
\* exception is not.
CacheAfter(path) ==
    LET r == load_json_df(path)
    IN  IF r.reread /\ ~r.raised THEN r.df ELSE cache[path]

\* Lines 259-263: the five safe_load calls of a pass.
LoadDatasets ==
    /\ pc = "load"
    /\ tables' = [p \in Paths |-> safe_load(p)]
    /\ cache' = [p \in Paths |-> CacheAfter(p)]
    /\ seen' = mtime
    /\ errors' = {p \in Paths : load_json_df(p).raised}
    /\ pc' = "view"
    /\ UNCHANGED <<files, mtime, now, lake, budget, out, script>>

\* Lines 65-67: the Refresh Results button clears the cache and reruns.
RefreshButton ==
    /\ pc \in {"view", "done"}
    /\ cache' = [p \in Paths |-> NoEntry]
    /\ tables' = [p \in Paths |-> Unbound]
    /\ errors' = {}
    /\ out' = NoOutput
    /\ pc' = "load"
    /\ UNCHANGED <<files, mtime, now, seen, lake, budget, script>>

-----------------------------------------------------------------------------
(* Sidebar, lines 59-63 *)

LakeOpts == {lake_opts[i] : i \in 1..Len(lake_opts)}

BudgetOpts == {b \in BudgetMin..BudgetMax : (b - BudgetMin) % BudgetStep = 0}

\* The budgets the user picks in the model.
BudgetChoices == {b \in BudgetOpts : b \in {150, 300}}

\* A widget interaction: Streamlit reruns the script from the top with the
\* new widget values and a fresh module namespace.
Rerun(l, b) ==
    /\ pc \in {"view", "done"}
    /\ lake' = l
    /\ budget' = b
    /\ tables' = [p \in Paths |-> Unbound]
    /\ errors' = {}
    /\ out' = NoOutput
    /\ pc' = "load"
    /\ UNCHANGED <<files, mtime, now, cache, seen, script>>

\* apply_lake, a mutation: the sentinel "All" is not exempted.
apply_lake_no_sentinel(df) ==
    IF empty(df) THEN EmptyDF
    ELSE IF "lake" \in df.cols
         THEN BoolIndex(df, ColEq(df, "lake", lake))
         ELSE df

\* apply_lake(df), lines 266-271.
apply_lake(df) ==
    IF empty(df) THEN EmptyDF
    ELSE IF lake # "All" /\ "lake" \in df.cols
         THEN BoolIndex(df, ColEq(df, "lake", lake))
         ELSE df

-----------------------------------------------------------------------------
(* The environment: an editor rewrites a source file *)

Rec1(p) == [id |-> "x1", name |-> p]
Rec2(p) == [id |-> "x2", name |-> p, lake |-> "Keuka"]

LoaderContents(p) == {Malformed, Valid(<<Rec1(p)>>), Valid(<<Rec1(p), Rec2(p)>>)}

ModifyFile(p, c) ==
    /\ now < MaxClock
    /\ c # files[p]
    /\ files' = [files EXCEPT ![p] = c]
    /\ now' = now + 1
    /\ mtime' = [mtime EXCEPT ![p] = now + 1]
    /\ UNCHANGED <<cache, tables, seen, errors, lake, budget, pc, out, script>>

-----------------------------------------------------------------------------
(* The names the load block binds, lines 259-263 *)

stays_df == tables[STAYS]
wineries_df == tables[WINERIES]
attr_df == tables[ATTRACTIONS]
venues_df == tables[VENUES]
itin_df == tables[ITINERARIES]

\* card_grid(df, card_type), lines 273-276: st.info for an empty table,
\* otherwise the table goes to the cards.
card_grid(df) == IF empty(df) THEN "No results. Try broadening filters." ELSE "cards"

-----------------------------------------------------------------------------
(* Stays view, lines 323-332 *)

\* Lines 326-327, a mutation: a strict comparison.
PriceFilterStrict(df) ==
    IF ~empty(df) /\ "price_per_night" \in df.cols
    THEN BoolIndex(df, ColLt(df, "price_per_night", budget))
    ELSE df

\* Lines 326-327: df[df["price_per_night"] <= budget], guarded.
PriceFilter(df) ==
    IF ~empty(df) /\ "price_per_night" \in df.cols
    THEN BoolIndex(df, ColLe(df, "price_per_night", budget))
    ELSE df

\* Line 328: "All" and the distinct non-null values of the type column.
\* The list is sorted in the code; the model keeps its members.
TypeOpts(df) ==
    {"All"} \cup
    (IF "type" \in df.cols /\ ~empty(df)
     THEN {df.rows[i]["type"][1] : i \in {j \in 1..Len(df.rows) : df.rows[j]["type"] # NaN}}
     ELSE {})

\* Lines 330-331.
TypeFilter(df, tsel) ==
    IF tsel # "All" /\ ~empty(df)
    THEN BoolIndex(df, ColEq(df, "type", tsel))
    ELSE df

StaysView(tsel) ==
    /\ pc = "view"
    /\ LET df == PriceFilter(apply_lake(stays_df))
       IN  /\ tsel \in TypeOpts(df)
           /\ out' = [view |-> "Stays", tsel |-> tsel,
                      df |-> TypeFilter(df, tsel),
                      signal |-> card_grid(TypeFilter(df, tsel))]
    /\ pc' = "done"
    /\ UNCHANGED <<files, mtime, now, cache, tables, seen, errors, lake, budget, script>>

TypeNames == {"All", "Cabin", "Inn"}

\* Input tables for the stays view: row i has id Ids[i]; lake and
\* price_per_night (with type) are present or missing per row.
Ids == <<"s1", "s2", "s3", "s4", "s5">>

\* (lake, price_per_night) of an input row; "-" and -1 stand for a missing key.
StayChoices ==
    ({"Keuka"} \X {150, 300, 350, -1}) \cup ({"Seneca"} \X {150, 300})
        \cup ({"-"} \X {150, -1})

StayRec(i, lk, pr) ==
    LET keys == {"id"} \cup (IF lk = "-" THEN {} ELSE {"lake"})
                       \cup (IF pr = -1 THEN {} ELSE {"price_per_night", "type"})
    IN  [k \in keys |->
           CASE k = "id" -> Ids[i]
             [] k = "lake" -> lk
             [] k = "price_per_night" -> pr
             [] k = "type" -> IF pr = 350 THEN "Inn" ELSE "Cabin"]

StayLists ==
    UNION {{[i \in 1..n |-> StayRec(i, c[i][1], c[i][2])] :
              c \in [1..n -> StayChoices]} : n \in 0..MaxStayRows}

StayFiles == {Malformed} \cup {Valid(d) : d \in StayLists}

-----------------------------------------------------------------------------
(* Wineries view, lines 335-341 *)

\* Line 340: df[df.get("tasting", False) == True].  With the column,
\* df.get returns the Series and the comparison is a boolean mask.  Without
\* it, df.get returns the default False, False == True is the scalar False,
\* and df[False] looks up a column labelled False: KeyError.
TastingFilter(df) ==
    IF "tasting" \in df.cols
    THEN [err |-> "", df |-> BoolIndex(df, ColEq(df, "tasting", TRUE))]
    ELSE [err |-> "KeyError", df |-> EmptyDF]

WineriesView(only_tastings) ==
    /\ pc = "view"
    /\ LET df == apply_lake(wineries_df)
           f == IF only_tastings /\ ~empty(df) THEN TastingFilter(df)
                ELSE [err |-> "", df |-> df]
       IN  out' = [view |-> "Wineries", only_tastings |-> only_tastings,
                   err |-> f.err, df |-> f.df,
                   signal |-> IF f.err = "" THEN card_grid(f.df) ELSE ""]
    /\ pc' = "done"
    /\ UNCHANGED <<files, mtime, now, cache, tables, seen, errors, lake, budget, script>>

WineryLakes == {"Keuka", "-"}
WineryTastings == {"yes", "no", "-"}

WineryRec(i, lk, ts) ==
    LET keys == {"id", "name"} \cup (IF lk = "-" THEN {} ELSE {"lake"})
                               \cup (IF ts = "-" THEN {} ELSE {"tasting"})
    IN  [k \in keys |->
           CASE k = "id" -> Ids[i]
             [] k = "name" -> Ids[i]
             [] k = "lake" -> lk
             [] k = "tasting" -> (ts = "yes")]

WineryLists ==
    UNION {{[i \in 1..n |-> WineryRec(i, c[i][1], c[i][2])] :
              c \in [1..n -> WineryLakes \X WineryTastings]} : n \in 0..MaxWineryRows}

WineryFiles == {Malformed} \cup {Valid(d) : d \in WineryLists}

-----------------------------------------------------------------------------
(* Map view, lines 363-395 *)

MapCols == {"name", "lat", "lng", "ctype", "lake"}

\* One turn of the loop, lines 372-375: the table is taken when it is not
\* empty after the region filter and has both coordinate columns; the
\* selection d[["name","lat","lng","ctype","lake"]] raises KeyError when the
\* table has no name or no lake column.
MapPart(dataset, ctype) ==
    LET d == apply_lake(dataset)
    IN  IF ~empty(d) /\ {"lat", "lng"} \subseteq d.cols
        THEN IF {"name", "lake"} \subseteq d.cols
             THEN [taken |-> TRUE, err |-> "",
                   rows |-> [i \in 1..Len(d.rows) |->
                               [c \in MapCols |-> IF c = "ctype" THEN <<ctype>>
                                                  ELSE d.rows[i][c]]]]
             ELSE [taken |-> FALSE, err |-> "KeyError", rows |-> <<>>]
        ELSE [taken |-> FALSE, err |-> "", rows |-> <<>>]

MapView ==
    /\ pc = "view"
    /\ LET s == MapPart(stays_df, "Stay")
           w == MapPart(wineries_df, "Winery")
           a == MapPart(attr_df, "Attraction")
           v == MapPart(venues_df, "Wedding Venue")
           raised == {x.err : x \in {s, w, a, v}} # {""}
           combined == s.taken \/ w.taken \/ a.taken \/ v.taken
       IN  out' = [view |-> "Map",
                   kind |-> IF raised THEN "KeyError"
                            ELSE IF combined THEN "table" ELSE "No locations to show.",
                   df |-> IF ~raised /\ combined
                          THEN [cols |-> MapCols, rows |-> s.rows \o w.rows \o a.rows \o v.rows]
                          ELSE EmptyDF]
    /\ pc' = "done"
    /\ UNCHANGED <<files, mtime, now, cache, tables, seen, errors, lake, budget, script>>

\* Input records for the map: full rows on two lakes, a row without
\* coordinates, a row without lake, a row without name, a row with lat only.
MapKinds == {"keuka", "seneca", "nocoords", "nolake", "noname", "latonly"}

MapRec(i, kind) ==
    LET keys == {"id"}
                \cup (IF kind = "noname" THEN {} ELSE {"name"})
                \cup (IF kind = "nolake" THEN {} ELSE {"lake"})
                \cup (IF kind = "nocoords" THEN {} ELSE {"lat"})
                \cup (IF kind \in {"nocoords", "latonly"} THEN {} ELSE {"lng"})
    IN  [k \in keys |->
           CASE k = "id" -> Ids[i]
             [] k = "name" -> Ids[i]
             [] k = "lake" -> (IF kind = "seneca" THEN "Seneca" ELSE "Keuka")
             [] k = "lat" -> 42
             [] k = "lng" -> -77]

MapLists ==
    UNION {{[i \in 1..n |-> MapRec(i, c[i])] : c \in [1..n -> MapKinds]} :
              n \in 0..MaxMapRows}

MapFiles == {Malformed} \cup {Valid(d) : d \in MapLists}

MapFilesSmall ==
    {Malformed, Valid(<<MapRec(1, "keuka")>>), Valid(<<MapRec(1, "nocoords")>>)}

-----------------------------------------------------------------------------
(* Itineraries view, lines 398-413 *)

\* df[c].isin(values): membership of each cell in the list.
isin(df, c, values) ==
    [i \in 1..Len(df.rows) |->
       df.rows[i][c] # NaN /\ \E k \in 1..Len(values) : values[k] = df.rows[i][c][1]]

\* row[key], a Series lookup: KeyError for a label the row does not have.
RowItem(cols, row, key) ==
    IF key \in cols THEN [err |-> "", v |-> row[key]] ELSE [err |-> "KeyError", v |-> NaN]

\* row.get(key, []): the default for a label the row does not have.
RowGet(cols, row, key) ==
    [err |-> "", v |-> IF key \in cols THEN row[key] ELSE <<<<>>>>]

\* table[table["id"].isin(refs)][show], lines 409, 411, 413, in evaluation
\* order: table["id"] raises KeyError on a table without an id column (an
\* empty DataFrame has none); then the id-list is looked up in the row;
\* isin raises TypeError when the id-list cell is NaN; the final column
\* selection raises KeyError when a shown column is missing.
Resolve(table, refs, show) ==
    IF "id" \notin table.cols THEN [err |-> "KeyError", df |-> EmptyDF]
    ELSE IF refs.err # "" THEN [err |-> refs.err, df |-> EmptyDF]
    ELSE IF refs.v = NaN THEN [err |-> "TypeError", df |-> EmptyDF]
    ELSE IF ~(show \subseteq table.cols) THEN [err |-> "KeyError", df |-> EmptyDF]
    ELSE LET hit == BoolIndex(table, isin(table, "id", refs.v[1]))
         IN  [err |-> "",
              df |-> [cols |-> show,
                      rows |-> [i \in 1..Len(hit.rows) |-> [c \in show |-> hit.rows[i][c]]]]]

\* One turn of the loop, lines 405-413, for itinerary row `row` of a table
\* with columns `cols`; the first exception ends the pass.
ItinSection(cols, row) ==
    IF ~({"title", "days", "summary", "lake"} \subseteq cols)
    THEN [err |-> "KeyError"]
    ELSE
    LET s == Resolve(stays_df, RowItem(cols, row, "stays"),
                     {"name", "address", "price_per_night"})
        w == Resolve(wineries_df, RowItem(cols, row, "wineries"), {"name", "address"})
        a == Resolve(attr_df, RowGet(cols, row, "attractions"), {"name", "address"})
        first == IF s.err # "" THEN s.err ELSE IF w.err # "" THEN w.err ELSE a.err
    IN  IF first # "" THEN [err |-> first]
        ELSE [err |-> "", stays |-> s.df, wineries |-> w.df, attractions |-> a.df]

ItinerariesView ==
    /\ pc = "view"
    /\ LET df == apply_lake(itin_df)
           secs == [i \in 1..Len(df.rows) |-> ItinSection(df.cols, df.rows[i])]
           bad == {i \in 1..Len(df.rows) : secs[i].err # ""}
       IN  out' = IF empty(df)
                  THEN [view |-> "Itineraries", err |-> "", sections |-> <<>>,
                        signal |-> "Add itineraries in data/itineraries.json"]
                  ELSE IF bad # {}
                  THEN [view |-> "Itineraries",
                        err |-> secs[CHOOSE i \in bad : \A j \in bad : i <= j].err,
                        sections |-> <<>>, signal |-> ""]
                  ELSE [view |-> "Itineraries", err |-> "", sections |-> secs,
                        signal |-> "expanders"]
    /\ pc' = "done"
    /\ UNCHANGED <<files, mtime, now, cache, tables, seen, errors, lake, budget, script>>

\* Input records for the join.
EntityRec(i, priced) ==
    LET keys == {"id", "name", "address"} \cup (IF priced THEN {"price_per_night"} ELSE {})
    IN  [k \in keys |->
           CASE k = "id" -> Ids[i]
             [] k = "name" -> Ids[i]
             [] k = "address" -> "addr"
             [] k = "price_per_night" -> 150]

JoinStayFiles ==
    {Malformed, Valid(<<>>), Valid(<<EntityRec(1, TRUE)>>),
     Valid(<<EntityRec(1, TRUE), EntityRec(2, TRUE)>>),
     Valid(<<EntityRec(1, FALSE), EntityRec(2, FALSE)>>)}

JoinWineryFiles == {Malformed, Valid(<<EntityRec(1, FALSE)>>)}

JoinAttrFiles == {Malformed, Valid(<<>>), Valid(<<EntityRec(1, FALSE)>>)}

StayRefs == {<<>>, <<"s1">>, <<"s2", "s1">>, <<"s1", "zz">>}

ItinRec(i, refs, withStays, withAttr) ==
    LET keys == {"id", "title", "days", "summary", "lake", "wineries"}
                \cup (IF withStays THEN {"stays"} ELSE {})
                \cup (IF withAttr THEN {"attractions"} ELSE {})
    IN  [k \in keys |->
           CASE k = "id" -> Ids[i]
             [] k = "title" -> "Weekend"
             [] k = "days" -> 2
             [] k = "summary" -> "text"
             [] k = "lake" -> "Keuka"
             [] k = "wineries" -> <<"s1">>
             [] k = "stays" -> refs
             [] k = "attractions" -> <<"s1">>]

ItinChoices == (StayRefs \X {TRUE} \X BOOLEAN) \cup ({<<>>} \X {FALSE} \X BOOLEAN)

ItinLists ==
    UNION {{[i \in 1..n |-> ItinRec(i, c[i][1], c[i][2], c[i][3])] :
              c \in [1..n -> ItinChoices]} : n \in 0..MaxItinRows}

ItinFiles == {Malformed} \cup {Valid(d) : d \in ItinLists}

-----------------------------------------------------------------------------
(* The file as written, top to bottom: each statement with the module-level
   names it reads and the names it binds.  A pass starts with an empty
   namespace; reading an unbound name raises NameError and ends the pass. *)

TableNames == {"stays_df", "wineries_df", "attr_df", "venues_df", "itin_df"}
CriteriaNames == {"lake", "budget", "view"}

Stmt(line, reads, binds) == [line |-> line, reads |-> reads, binds |-> binds]

Script ==
    <<Stmt(62, {}, {"lake"}),
      Stmt(63, {}, {"budget"}),
      Stmt(65, {}, {}),
      Stmt(69, {}, {"apply_lake"}),
      Stmt(76, {}, {"card_grid"}),
      Stmt(144, {}, {"stays_tab", "wineries_tab", "attractions_tab",
                     "venues_tab", "map_tab", "itineraries_tab"}),
      Stmt(151, {"stays_tab", "apply_lake", "stays_df", "lake"}, {"df"}),
      Stmt(153, {"df", "budget"}, {"df"}),
      Stmt(162, {"df", "card_grid"}, {}),
      Stmt(167, {"wineries_tab", "apply_lake", "wineries_df", "lake"}, {"df"}),
      Stmt(175, {"df", "card_grid"}, {}),
      Stmt(180, {"attractions_tab", "apply_lake", "attr_df", "lake"}, {"df"}),
      Stmt(189, {"df", "card_grid"}, {}),
      Stmt(194, {"venues_tab", "apply_lake", "venues_df", "lake"}, {"df"}),
      Stmt(202, {"df", "card_grid"}, {}),
      Stmt(214, {"map_tab", "apply_lake", "lake",
                 "stays_df", "wineries_df", "attr_df", "venues_df"}, {"combined"}),
      Stmt(242, {"itineraries_tab", "apply_lake", "itin_df", "lake"}, {"df"}),
      Stmt(251, {"df", "stays_df", "wineries_df", "attr_df"}, {}),
      Stmt(259, {}, {"stays_df"}),
      Stmt(260, {}, {"wineries_df"}),
      Stmt(261, {}, {"attr_df"}),
      Stmt(262, {}, {"venues_df"}),
      Stmt(263, {}, {"itin_df"}),
      Stmt(266, {}, {"apply_lake"}),
      Stmt(273, {}, {"card_grid"}),
      Stmt(323, {"view"}, {})>>

\* The statement at the instruction pointer executes.
ScriptStep ==
    /\ script.status = "running"
    /\ script.ip <= Len(Script)
    /\ Script[script.ip].reads \subseteq script.names
    /\ script' = [script EXCEPT !.ip = @ + 1,
                                !.names = @ \cup Script[script.ip].binds]
    /\ UNCHANGED <<files, mtime, now, cache, tables, seen, errors, lake, budget, pc, out>>

\* The statement at the instruction pointer reads an unbound name.
ScriptRaise ==
    /\ script.status = "running"
    /\ script.ip <= Len(Script)
    /\ ~(Script[script.ip].reads \subseteq script.names)
    /\ script' = [script EXCEPT !.status = "NameError"]
    /\ UNCHANGED <<files, mtime, now, cache, tables, seen, errors, lake, budget, pc, out>>

\* The user moves a sidebar widget after the pass has ended: a new pass.
ScriptRerun(l, b) ==
    /\ script.status # "running"
    /\ lake' = l
    /\ budget' = b
    /\ script' = [ip |-> 1, names |-> {}, status |-> "running"]
    /\ UNCHANGED <<files, mtime, now, cache, tables, seen, errors, pc, out>>

\* Lines 65-67 with the button pressed: the cache is cleared and st.rerun()
\* starts the pass again.
ScriptRefresh ==
    /\ script.status = "running"
    /\ script.ip <= Len(Script)
    /\ Script[script.ip].line = 65
    /\ cache' = [p \in Paths |-> NoEntry]
    /\ script' = [ip |-> 1, names |-> {}, status |-> "running"]
    /\ UNCHANGED <<files, mtime, now, tables, seen, errors, lake, budget, pc, out>>

-----------------------------------------------------------------------------
(* Specifications.  A pass of the sidebar-radio implementation is: widget
   values (Rerun), the load block (LoadDatasets), one view block.  SpecLoader
   adds the environment rewriting files and the Refresh button; SpecStays,
   SpecWineries, SpecMap and SpecItin draw the input files of one view from
   bounded sets and run that view; SpecScript executes the statements of the
   file in the order they are written. *)

InitCommon ==
    /\ mtime = [p \in Paths |-> 0]
    /\ now = 0
    /\ cache = [p \in Paths |-> NoEntry]
    /\ tables = [p \in Paths |-> Unbound]
    /\ seen = [p \in Paths |-> -1]
    /\ errors = {}
    /\ lake = lake_opts[1]
    /\ budget = DefaultBudget
    /\ pc = "load"
    /\ out = NoOutput
    /\ script = [ip |-> 1, names |-> {}, status |-> "running"]

InitLoader ==
    /\ \E bad \in SUBSET Paths :
          files = [p \in Paths |-> IF p \in bad THEN Malformed ELSE Valid(<<Rec1(p)>>)]
    /\ InitCommon

NextLoader ==
    \/ LoadDatasets
    \/ RefreshButton
    \/ \E l \in LakeOpts, b \in BudgetChoices : Rerun(l, b)
    \/ \E p \in Paths : \E c \in LoaderContents(p) : ModifyFile(p, c)

SpecLoader == InitLoader /\ [][NextLoader]_vars

InitStays ==
    /\ \E c \in StayFiles :
          files = [p \in Paths |-> IF p = STAYS THEN c ELSE Valid(<<Rec1(p)>>)]
    /\ InitCommon

NextStays ==
    \/ LoadDatasets
    \/ \E l \in LakeOpts, b \in BudgetChoices : Rerun(l, b)
    \/ \E t \in TypeNames : StaysView(t)

SpecStays == InitStays /\ [][NextStays]_vars

InitWineries ==
    /\ \E c \in WineryFiles :
          files = [p \in Paths |-> IF p = WINERIES THEN c ELSE Valid(<<Rec1(p)>>)]
    /\ InitCommon

NextWineries ==
    \/ LoadDatasets
    \/ \E l \in LakeOpts, b \in BudgetChoices : Rerun(l, b)
    \/ \E t \in BOOLEAN : WineriesView(t)

SpecWineries == InitWineries /\ [][NextWineries]_vars

InitMap ==
    /\ \E s \in MapFiles, w \in MapFiles, a \in MapFilesSmall, v \in MapFilesSmall :
          files = [p \in Paths |->
                     CASE p = STAYS -> s
                       [] p = WINERIES -> w
                       [] p = ATTRACTIONS -> a
                       [] p = VENUES -> v
                       [] OTHER -> Valid(<<Rec1(p)>>)]
    /\ InitCommon

NextMap ==
    \/ LoadDatasets
    \/ \E l \in LakeOpts, b \in BudgetChoices : Rerun(l, b)
    \/ MapView

SpecMap == InitMap /\ [][NextMap]_vars

InitItin ==
    /\ \E s \in JoinStayFiles, w \in JoinWineryFiles, a \in JoinAttrFiles, i \in ItinFiles :
          files = [p \in Paths |->
                     CASE p = STAYS -> s
                       [] p = WINERIES -> w
                       [] p = ATTRACTIONS -> a
                       [] p = ITINERARIES -> i
                       [] OTHER -> Valid(<<Rec1(p)>>)]
    /\ InitCommon

NextItin ==
    \/ LoadDatasets
    \/ \E l \in LakeOpts, b \in BudgetChoices : Rerun(l, b)
    \/ ItinerariesView

SpecItin == InitItin /\ [][NextItin]_vars

InitScript ==
    /\ files = [p \in Paths |-> Valid(<<Rec1(p)>>)]
    /\ InitCommon

NextScript ==
    \/ ScriptStep
    \/ ScriptRaise
    \/ ScriptRefresh
    \/ \E l \in LakeOpts, b \in BudgetOpts : ScriptRerun(l, b)

SpecScript == InitScript /\ [][NextScript]_vars

-----------------------------------------------------------------------------
(* Properties *)

Loaded == pc \in {"view", "done"}

\* res is exactly the rows of src at the positions in idx, in src's order:
\* an order-preserving embedding of res into src whose image is idx.
IsSelection(res, src, idx) ==
    \E f \in [1..Len(res) -> 1..Len(src)] :
        /\ \A i, j \in 1..Len(res) : i < j => f[i] < f[j]
        /\ \A i \in 1..Len(res) : res[i] = src[f[i]]
        /\ {f[i] : i \in 1..Len(res)} = idx

\* C4: with region "All", apply_lake returns the table unchanged (rows,
\* order, columns), also when the table has no lake column; with another
\* region and a lake column, the result has the same columns and exactly
\* the rows with lake == region, in the table's order, each unchanged; and
\* the table itself is still what the loader returned, before and after the
\* view ran.
C4_ApplyLake ==
    Loaded =>
        LET T == stays_df
            R == apply_lake(T)
        IN  /\ lake = "All" => R = T
            /\ (lake # "All" /\ "lake" \in T.cols) =>
                  /\ R.cols = T.cols
                  /\ IsSelection(R.rows, T.rows,
                        {j \in 1..Len(T.rows) : T.rows[j]["lake"] = <<lake>>})
                  /\ \A i \in 1..Len(R.rows) : R.rows[i]["lake"] = <<lake>>
            /\ Len(R.rows) <= Len(T.rows)
            /\ T = (IF cache[STAYS] # NoEntry THEN cache[STAYS] ELSE EmptyDF)

\* C4 witness: the stays view ran with a region other than "All" on a table
\* with a lake column, and the region filter kept some rows and dropped others.
C4_Witness ==
    /\ pc = "done"
    /\ out.view = "Stays"
    /\ lake # "All"
    /\ "lake" \in stays_df.cols
    /\ Len(apply_lake(stays_df).rows) > 0
    /\ Len(apply_lake(stays_df).rows) < Len(stays_df.rows)

\* The rows of the stays table that pass the region criterion.
InRegion(T, r) == lake = "All" \/ "lake" \notin T.cols \/ r["lake"] = <<lake>>

\* C5: the stays price filter, composed after the region filter, returns
\* exactly the rows with price_per_night <= ceiling in original order; a row
\* missing the price is excluded when the table has the column, every row is
\* kept when it has no such column; three Keuka stays priced 150, 350, 300
\* with region Keuka and ceiling 300 give the 150 and 300 stays in order; and
\* filtering the result again with the same ceiling changes nothing.
C5_PriceFilter ==
    (pc = "done" /\ out.view = "Stays" /\ out.tsel = "All") =>
        LET T == stays_df
        IN  /\ "price_per_night" \in T.cols =>
                  /\ IsSelection(out.df.rows, T.rows,
                        {j \in 1..Len(T.rows) :
                            /\ InRegion(T, T.rows[j])
                            /\ T.rows[j]["price_per_night"] # NaN
                            /\ T.rows[j]["price_per_night"][1] <= budget})
                  /\ \A i \in 1..Len(out.df.rows) :
                        out.df.rows[i]["price_per_night"] # NaN
            /\ "price_per_night" \notin T.cols =>
                  IsSelection(out.df.rows, T.rows,
                      {j \in 1..Len(T.rows) : InRegion(T, T.rows[j])})
            /\ PriceFilter(out.df) = out.df
            /\ (/\ files[STAYS] = Valid(<<StayRec(1, "Keuka", 150),
                                          StayRec(2, "Keuka", 350),
                                          StayRec(3, "Keuka", 300)>>)
                /\ lake = "Keuka"
                /\ budget = 300) =>
                  /\ Len(out.df.rows) = 2
                  /\ out.df.rows[1]["id"] = <<"s1">>
                  /\ out.df.rows[2]["id"] = <<"s3">>

\* C5 witness: the end-to-end scenario has run.
C5_Witness ==
    /\ pc = "done"
    /\ out.view = "Stays"
    /\ out.tsel = "All"
    /\ files[STAYS] = Valid(<<StayRec(1, "Keuka", 150),
                              StayRec(2, "Keuka", 350),
                              StayRec(3, "Keuka", 300)>>)
    /\ lake = "Keuka"
    /\ budget = 300
    /\ Len(out.df.rows) = 2

\* C1: for every choice of malformed files, loading the five files gives an
\* empty table for each malformed file and the parsed table for each other
\* file, whatever the state of the other files.  Stated for a pass whose
\* load observed the file as it is now.
C1_SafeLoadIsolation ==
    Loaded =>
        \A p \in Paths :
            seen[p] = mtime[p] =>
                /\ ~files[p].ok => tables[p] = EmptyDF
                /\ files[p].ok => tables[p] = DataFrame(files[p].data)

\* C6: a load after the file's modified-timestamp changed returns the table
\* built from the file's current contents, never an older file state.
C6_CacheFreshness ==
    [][(pc = "load" /\ pc' = "view") =>
          \A p \in Paths :
              (files[p].ok /\ seen[p] # mtime[p]) =>
                  tables'[p] = DataFrame(files[p].data)]_vars

\* A row has both coordinates.
HasCoords(T, r) == {"lat", "lng"} \subseteq T.cols /\ r["lat"] # NaN /\ r["lng"] # NaN

\* The rows of T that pass the region criterion and have both coordinates,
\* tagged, with the map's columns.
Tagged(T, ctype) ==
    LET keep == SelectSeq(T.rows, LAMBDA r : InRegion(T, r) /\ HasCoords(T, r))
    IN  [i \in 1..Len(keep) |->
           [c \in MapCols |-> IF c = "ctype" THEN <<ctype>>
                              ELSE IF c \in T.cols THEN keep[i][c] ELSE NaN]]

ExpectedMapRows ==
    Tagged(stays_df, "Stay") \o Tagged(wineries_df, "Winery")
        \o Tagged(attr_df, "Attraction") \o Tagged(venues_df, "Wedding Venue")

\* C2: the map table is the concatenation, in the order stays, wineries,
\* attractions, venues, of each table's region-filtered rows in original
\* order, every row lacking lat or lng dropped, each tagged with its
\* category label.  Stated for the passes in which a map table is produced.
C2_MapConcatenation ==
    (pc = "done" /\ out.view = "Map" /\ out.kind = "table") =>
        out.df.rows = ExpectedMapRows

\* C9: the map step never raises, also when a table lacks a lake or name
\* column; the "no locations" signal means that no row survived; a table,
\* when emitted, has the columns name, lat, lng, category label, lake.
C9_MapSignal ==
    (pc = "done" /\ out.view = "Map") =>
        /\ out.kind \in {"table", "No locations to show."}
        /\ out.kind = "No locations to show." => ExpectedMapRows = <<>>
        /\ out.kind = "table" => out.df.cols = MapCols

\* The itineraries shown all carry their stay and winery id-lists, and every
\* entity table that has rows has the columns the view shows.
WellFormedJoinInput ==
    LET I == apply_lake(itin_df)
    IN  /\ {"stays", "wineries"} \subseteq I.cols
        /\ \A i \in 1..Len(I.rows) :
              /\ I.rows[i]["stays"] # NaN
              /\ I.rows[i]["wineries"] # NaN
              /\ "attractions" \in I.cols => I.rows[i]["attractions"] # NaN
        /\ ~empty(stays_df) => {"id", "name", "address", "price_per_night"} \subseteq stays_df.cols
        /\ ~empty(wineries_df) => {"id", "name", "address"} \subseteq wineries_df.cols
        /\ ~empty(attr_df) => {"id", "name", "address"} \subseteq attr_df.cols

\* The ids of the rows of T whose id occurs in refs, in T's order.
MatchingIds(T, refs) ==
    LET hit == SelectSeq(T.rows, LAMBDA r : \E k \in 1..Len(refs) : r["id"] = <<refs[k]>>)
    IN  [i \in 1..Len(hit) |-> hit[i]["id"]]

ShownIds(df) == [i \in 1..Len(df.rows) |-> df.rows[i]["name"]]

\* C3: for every itinerary and every stay table, the resolved stays subset is
\* exactly the rows of the stay table whose id occurs in the itinerary's
\* id-list, in the table's order, and the resolution raises no error.
C3_ResolveRefs ==
    (pc = "done" /\ out.view = "Itineraries" /\ ~empty(apply_lake(itin_df))
        /\ WellFormedJoinInput) =>
        /\ out.err = ""
        /\ \A i \in 1..Len(out.sections) :
              ShownIds(out.sections[i].stays) =
                  MatchingIds(stays_df, apply_lake(itin_df).rows[i]["stays"][1])

\* C7: with an empty stay, winery or attraction table and a non-empty
\* itinerary table, resolving each itinerary's references completes, and the
\* subset for the empty table is empty.
C7_EmptyTablesJoin ==
    (pc = "done" /\ out.view = "Itineraries" /\ ~empty(apply_lake(itin_df))
        /\ WellFormedJoinInput
        /\ (empty(stays_df) \/ empty(wineries_df) \/ empty(attr_df))) =>
        /\ out.err = ""
        /\ \A i \in 1..Len(out.sections) :
              /\ empty(stays_df) => out.sections[i].stays.rows = <<>>
              /\ empty(wineries_df) => out.sections[i].wineries.rows = <<>>
              /\ empty(attr_df) => out.sections[i].attractions.rows = <<>>

\* C8: with the tastings toggle on, the winery filter returns exactly the
\* rows whose tasting flag is true, in original order; a missing tasting
\* value is excluded like false; without a tasting column the result is
\* empty and no error is raised.
C8_TastingFilter ==
    (pc = "done" /\ out.view = "Wineries" /\ out.only_tastings) =>
        /\ out.err = ""
        /\ IsSelection(out.df.rows, wineries_df.rows,
              {j \in 1..Len(wineries_df.rows) :
                  /\ InRegion(wineries_df, wineries_df.rows[j])
                  /\ "tasting" \in wineries_df.cols
                  /\ wineries_df.rows[j]["tasting"] = <<TRUE>>})

\* C10: in a pass, no statement reads an entity table before the load block
\* has bound it, or a criterion (region, budget, selected view) before it
\* has been set.
C10_PassOrder ==
    (script.status = "running" /\ script.ip <= Len(Script)) =>
        (Script[script.ip].reads \cap (TableNames \cup CriteriaNames))
            \subseteq script.names

====
